---- MODULE Spec2Model ----
(***************************************************************************)
(* Model of the Maestra live SDK: WebSocketClient (connection lifecycle,   *)
(* inbound message classification), MaestraClient (connect / transcribe /  *)
(* stop) and the capture sources (FfmpegProcessor family,                  *)
(* MicrophoneProcessor, StreamInputProcessor), and the resampler of the    *)
(* browser demo (AudioWorklet Resampler and the resample() fallback).      *)
(*                                                                         *)
(* Every handler of the source is a pure operator on a "world" record W    *)
(* (the objects' fields plus the events emitted by the running step); an   *)
(* action applies one handler to the current state and commits the result. *)
(*                                                                         *)
(* Environment assumptions: an 'error' listener is registered on the       *)
(* MaestraClient (README quick start), so emit('error') does not throw.    *)
(* The ws library delivers 'message' events while a socket is OPEN or      *)
(* CLOSING (close() only starts the closing handshake).  Inbound messages  *)
(* are well-formed JSON text.                                              *)
(***************************************************************************)
EXTENDS Integers, Sequences, FiniteSets

VARIABLES
  options,     \* the options given to the MaestraClient constructor
  clients,     \* sequence of WebSocketClient objects ever constructed
  socks,       \* sequence of WebSocket objects ever constructed (with their timer)
  mc,          \* the MaestraClient object
  procs,       \* sequence of audio processors handed to transcribe()
  emitted,     \* events emitted by WebSocketClient objects during the last step
  mcEmitted,   \* events emitted by the MaestraClient during the last step
  audioOut,    \* sockets an audio frame was written to during the last step
  last,        \* the last step: which handler ran, on which socket or processor,
               \* with which message, and the owning client's isServerReady and
               \* sourceLanguage when it began
  rs,          \* the browser demo's resampling node: its rates, its state, the
               \* signal it is fed and the samples it has sent
  mic,         \* a MicrophoneProcessor driven directly, with the recordings and
               \* resamplers it has created
  vmix         \* a VmixProcessor, the clock, its requests in flight and what it
               \* has sent and emitted

\* the variables of the connection and session model
session == <<options, clients, socks, mc, procs, emitted, mcEmitted, audioOut, last>>

vars == <<options, clients, socks, mc, procs, emitted, mcEmitted, audioOut, last, rs,
          mic, vmix>>

(***************************************************************************)
(* Bounds                                                                  *)
(***************************************************************************)
MaxClients == 2   \* WebSocketClient objects constructed in one run
MaxSockets == 2   \* WebSocket objects constructed in one run
MaxProcs   == 2   \* processors handed to transcribe() in one run
MaxSegs    == 2   \* segments in one inbound message
MaxBuf     == 1   \* blocks buffered in one capture source's stream
MaxWords   == 2   \* words in the text of one error message
MaxQueue   == 2   \* blocks buffered in a stream when their order is observed
MaxSignal  == 4   \* samples in the signal fed to the resampler
MaxRate    == 3   \* sample rates range up to MaxRate
MaxKey     == 2   \* characters of an API key
MaxGap     == 1   \* render quanta without input in one run of the resampler
MaxStarts  == 3   \* calls of MicrophoneProcessor.start() and of stop()
MaxLine    == 3   \* maxLineLength of the VmixProcessor
MaxCaption == 4   \* words kept by the VmixProcessor (buffered and displayed)
MaxText    == 3   \* words of one segment's text
MaxStamp   == 2   \* largest timestamp of a segment
MaxInFlight == 22 \* caption requests to vMix waiting for their answer

(***************************************************************************)
(* Inbound messages (the JSON record after JSON.parse)                     *)
(***************************************************************************)
Texts == {"hi", "yo"}

Segment == [text : Texts, completed : BOOLEAN]

RECURSIVE SeqsUpTo(_, _)
SeqsUpTo(S, n) ==
  IF n = 0 THEN {<<>>}
  ELSE LET shorter == SeqsUpTo(S, n - 1)
       IN  shorter \cup {Append(q, x) : q \in {r \in shorter : Len(r) = n - 1}, x \in S}

SegLists == SeqsUpTo(Segment, MaxSegs)

\* uid: "none" | "mine" | "other"; status: "none" | "WAIT" | "ERROR"; error,
\* language, translated_segments, segment, translated_segment: the field is
\* present (truthy); audio: type is "audio".
\* message: "none" (absent) | "DISCONNECT" | "text" (the string whose words are
\* in words).  errorType: the JSON type of a present error field, "string"
\* (its words in errorWords) or "object".  status_code: 0 when absent.
\* data: what event.data is, "json" (a text that JSON.parse accepts), "text" (a
\* text that JSON.parse rejects) or "arraybuffer".  segmentsType: the JSON type
\* of a present segments field, "list" or "string".
PlainMsg ==
  [data |-> "json", segmentsType |-> "list", uid |-> "none", status |-> "none", error |-> FALSE, message |-> "none",
   language |-> FALSE, hasSegments |-> FALSE, segments |-> <<>>,
   translated_segments |-> FALSE, segment |-> FALSE, translated_segment |-> FALSE,
   audio |-> FALSE,
   words |-> <<>>, errorType |-> "string", errorWords |-> <<"failure">>,
   status_code |-> 0]

\* status / error / message / language in every combination, with or without
\* one interim segment
ControlMsgs ==
  {[PlainMsg EXCEPT !.status = st, !.error = er, !.message = me, !.language = la,
                    !.hasSegments = hs,
                    !.segments = IF hs THEN <<[text |-> "hi", completed |-> FALSE]>>
                                 ELSE <<>>] :
     st \in {"none", "WAIT", "ERROR"}, er \in BOOLEAN,
     me \in {"none", "DISCONNECT"}, la \in BOOLEAN, hs \in BOOLEAN}

\* interim payloads: every segment list up to MaxSegs
SegmentMsgs ==
  {[PlainMsg EXCEPT !.hasSegments = TRUE, !.segments = sg] : sg \in SegLists}

\* the other result payloads: interim translation, finalized segment,
\* finalized translation, voice-over audio
ResultMsgs ==
  {[PlainMsg EXCEPT !.translated_segments = TRUE], [PlainMsg EXCEPT !.segment = TRUE],
   [PlainMsg EXCEPT !.translated_segment = TRUE], [PlainMsg EXCEPT !.audio = TRUE]}

\* messages echoing this client's uid, or another client's
AddressedMsgs ==
  {[m EXCEPT !.uid = u] :
     m \in {PlainMsg, [PlainMsg EXCEPT !.status = "WAIT"],
            [PlainMsg EXCEPT !.status = "ERROR"],
            [PlainMsg EXCEPT !.message = "DISCONNECT"],
            [PlainMsg EXCEPT !.hasSegments = TRUE,
                             !.segments = <<[text |-> "hi", completed |-> FALSE]>>]},
     u \in {"mine", "other"}}

\* a text that is not JSON, and a segments field that is not a list
MalformedMsgs ==
  {[PlainMsg EXCEPT !.data = "text"],
   [PlainMsg EXCEPT !.hasSegments = TRUE, !.segmentsType = "string"]}

\* a binary frame
BinaryMsgs == {[PlainMsg EXCEPT !.data = "arraybuffer"]}

Messages ==
  ControlMsgs \cup SegmentMsgs \cup ResultMsgs \cup AddressedMsgs
    \cup MalformedMsgs \cup BinaryMsgs

\* texts of error messages: a text is a sequence of words
Words == {"Invalid", "TOKEN", "Authentication", "error.", "failure"}

ErrorTexts == SeqsUpTo(Words, MaxWords) \ {<<>>}

StatusCodes == {0, 401, 403, 500}

\* hard error messages: the text in message or in error, an error field that
\* is an object, no text at all, and both texts at once
ErrorMsgs ==
  {[PlainMsg EXCEPT !.status = "ERROR", !.message = "text", !.words = t,
                    !.status_code = sc] : t \in ErrorTexts, sc \in StatusCodes}
  \cup {[PlainMsg EXCEPT !.error = TRUE, !.errorWords = t, !.status_code = sc] :
          t \in ErrorTexts, sc \in StatusCodes}
  \cup {[PlainMsg EXCEPT !.status = st, !.error = TRUE, !.errorType = "object",
                         !.status_code = sc] :
          st \in {"none", "ERROR"}, sc \in StatusCodes}
  \cup {[PlainMsg EXCEPT !.status = "ERROR", !.status_code = sc] : sc \in StatusCodes}
  \cup {[PlainMsg EXCEPT !.message = "text", !.words = <<w>>, !.error = TRUE,
                         !.errorWords = <<v>>] : w \in Words, v \in Words}
  \cup {[PlainMsg EXCEPT !.uid = u, !.status = "ERROR"] : u \in {"mine", "other"}}

\* the messages that drive the connection life cycle: server ready / plain
\* transcription, soft WAIT, hard error, DISCONNECT
LifecycleMsgs ==
  {PlainMsg, [PlainMsg EXCEPT !.status = "WAIT"], [PlainMsg EXCEPT !.status = "ERROR"],
   [PlainMsg EXCEPT !.message = "DISCONNECT"]}

NoMsg == [PlainMsg EXCEPT !.uid = "-"]

(***************************************************************************)
(* Objects                                                                 *)
(***************************************************************************)
\* JavaScript's a || b on the option values used here: "undefined" and "null"
\* stand for the values undefined and null, every other string for itself
JsOr(a, b) == IF a \in {"undefined", "null", ""} THEN b ELSE a

\* an apiKey option: nothing, a number (42), or a string of blanks and other
\* characters
KeyChars == {" ", "k"}

UndefinedKey == [type |-> "undefined", chars |-> <<>>]

ValidKey == [type |-> "string", chars |-> <<"k">>]

ApiKeys ==
  {UndefinedKey, [type |-> "number", chars |-> <<>>]}
    \cup {[type |-> "string", chars |-> q] : q \in SeqsUpTo(KeyChars, MaxKey)}

\* String.prototype.trim
RECURSIVE TrimStart(_)
TrimStart(q) == IF q # <<>> /\ Head(q) = " " THEN TrimStart(Tail(q)) ELSE q

RECURSIVE TrimEnd(_)
TrimEnd(q) ==
  IF q # <<>> /\ q[Len(q)] = " " THEN TrimEnd(SubSeq(q, 1, Len(q) - 1)) ELSE q

Trim(q) == TrimEnd(TrimStart(q))

\* !apiKey
Falsy(apiKey) ==
  apiKey.type = "undefined" \/ (apiKey.type = "string" /\ apiKey.chars = <<>>)

\* a validation that lets every key pass
WS_validateApiKey_None(apiKey) == TRUE

\* WebSocketClient._validateApiKey: part_006 lines 203-214
WS_validateApiKey(apiKey) ==
  IF Falsy(apiKey) THEN FALSE
  ELSE IF apiKey.type # "string" \/ Len(Trim(apiKey.chars)) = 0 THEN FALSE
  ELSE TRUE

\* WebSocketClient constructor: part_006 lines 37-63, for the options o;
\* this.sourceLanguage = options.sourceLanguage || options.language.
\* A boolean option is "true", "false" or "undefined" (not passed).
NewWSClient(o) ==
  [socket |-> 0, isServerReady |-> FALSE, connectionTimer |-> 0,
   sourceLanguage |-> JsOr(o.sourceLanguage, o.language),
   apiKey |-> o.apiKey,
   targetLanguage |-> o.targetLanguage,
   useVad |-> IF o.useVad # "undefined" THEN o.useVad ELSE "true"]

\* get translationEnabled: part_006 lines 65-67
translationEnabled(client) == client.targetLanguage \notin {"null", "undefined"}

\* no configuration record
NoConfig ==
  [uid |-> "-", authorization |-> UndefinedKey, use_vad |-> "-",
   sourceLanguage |-> "-", targetLanguage |-> "-", translationEnabled |-> FALSE]

\* a configuration record whose translationEnabled is always false
ConfigRecord_NoTranslation(client) ==
  [uid |-> "me", authorization |-> client.apiKey, use_vad |-> client.useVad,
   sourceLanguage |-> client.sourceLanguage, targetLanguage |-> client.targetLanguage,
   translationEnabled |-> FALSE]

\* the options record socket.onopen builds and sends: part_006 lines 265-291.
\* "absent": the key is not in the record (authorization holds the key that
\* follows "Bearer ", the undefined key when JSON.stringify drops it).  The
\* keys saveToDashboard, voiceOverEnabled and voiceId are left out.
ConfigRecord(client) ==
  [uid |-> "me",
   authorization |-> IF Falsy(client.apiKey) THEN UndefinedKey ELSE client.apiKey,
   use_vad |-> client.useVad,
   sourceLanguage |-> IF client.sourceLanguage \notin {"null", "undefined"}
                      THEN client.sourceLanguage ELSE "absent",
   targetLanguage |-> IF client.targetLanguage \notin {"null", "undefined"}
                      THEN client.targetLanguage ELSE "absent",
   translationEnabled |-> translationEnabled(client)]

\* history counters saturate: 0, 1, "two or more"
Count(n) == IF n < 2 THEN n + 1 ELSE n

\* new WebSocket(url), the timer its onopen arms, and the per-attempt history
\* the claims speak about
NewSocket(c) ==
  [owner |-> c,            \* the WebSocketClient whose handlers it carries
   readyState |-> "CONNECTING",
   opened |-> FALSE,        \* onopen ran: configuration sent, promise resolved
   config |-> NoConfig,     \* the configuration record its onopen sent
   first |-> "none",        \* the first thing written to it: none | config | audio
   timer |-> "idle",        \* the timeout armed by its onopen: idle | pending
   readyCount |-> 0,        \* 'ready' events its messages produced (2: two or more)
   disconnected |-> FALSE]  \* a DISCONNECT message was handled on it

\* the options a caller passes to new MaestraClient(); "undefined": not passed
UserOptions(apiKey, sourceLanguage, language, targetLanguage, useVad) ==
  [apiKey |-> apiKey, sourceLanguage |-> sourceLanguage, language |-> language,
   targetLanguage |-> targetLanguage, useVad |-> useVad]

\* { key: computed, ...options }: the caller's value replaces the computed one
\* when the caller passed the key
Spread(computed, given) == IF given # "undefined" THEN given ELSE computed

\* MaestraClient constructor, this.options: maestra-client.js lines 23-36
MC_options(user) ==
  [apiKey |-> user.apiKey,
   sourceLanguage |-> Spread(JsOr(JsOr(user.sourceLanguage, user.language), "null"),
                             user.sourceLanguage),
   language |-> user.language,
   targetLanguage |-> Spread(JsOr(user.targetLanguage, "null"), user.targetLanguage),
   useVad |-> IF user.useVad # "undefined" THEN user.useVad ELSE "true"]

\* MaestraClient constructor: maestra-client.js lines 21-49
NewMaestraClient ==
  [websocketClient |-> 0, streamProcessor |-> 0, isTranscribing |-> FALSE,
   transcriptionData |-> [segments |-> <<>>, translatedSegments |-> <<>>,
                          finalizedSegments |-> <<>>,
                          finalizedTranslatedSegments |-> <<>>]]

\* MaestraClient.getTranscriptionData: maestra-client.js lines 167-174
MC_getTranscriptionData(client) ==
  [interimTranscription |-> client.transcriptionData.segments,
   interimTranslation |-> client.transcriptionData.translatedSegments,
   finalizedTranscription |-> client.transcriptionData.finalizedSegments,
   finalizedTranslation |-> client.transcriptionData.finalizedTranslatedSegments]

\* constructors of the capture sources: part_003 lines 20-30 (FfmpegProcessor),
\* part_005 lines 10-23 (MicrophoneProcessor), stream-input-processor.js 13-19
NewProcessor(kind) ==
  [kind |-> kind,           \* "ffmpeg" | "mic" | "stream"
   isProcessing |-> FALSE,
   handle |-> FALSE,        \* ffmpegProcess / microphone / audioStream is non-null
   resampler |-> FALSE,     \* MicrophoneProcessor.resampler is non-null
   source |-> "idle",       \* the owned process, device or stream:
                            \*   idle | starting | running | dead
   buf |-> <<>>,            \* blocks buffered in its stream, not yet delivered
   stopped |-> FALSE]       \* stop() has returned

World ==
  [cl |-> clients, so |-> socks, mc |-> mc, pr |-> procs, ev |-> <<>>, mev |-> <<>>,
   out |-> <<>>]

(***************************************************************************)
(* Event emission.  _initWebSocketClient (maestra-client.js 75-91) installs *)
(* forwarding listeners on every WebSocketClient it creates; they stay      *)
(* installed after stop() drops the reference.                              *)
(***************************************************************************)
Forwarded(name) ==
  CASE name = "ready"             -> "ready"
    [] name = "error"             -> "error"
    [] name = "disconnect"        -> "disconnect"
    [] name = "languageDetected"  -> "language-detected"
    [] name = "segments"          -> "interim-transcription"
    [] name = "translatedSegments"          -> "interim-translation"
    [] name = "finalizedSegment"            -> "finalized-transcription"
    [] name = "finalizedTranslatedSegment"  -> "finalized-translation"
    [] name = "finalizedSegmentAudioURL"    -> "finalized-segment-audio-url"
    [] OTHER                      -> "-"

\* an event: its name, a tag for its argument, and in segs the list it carries
\* (the segments of a segment event, the words of an error's message)
MCEmit(W, name, arg, segs) ==
  [W EXCEPT !.mev = Append(@, [name |-> name, arg |-> arg, segs |-> segs])]

WSEmit(W, c, name, arg, segs) ==
  LET W1 == [W EXCEPT !.ev = Append(@, [client |-> c, name |-> name, arg |-> arg,
                                        segs |-> segs])]
  IN  IF Forwarded(name) = "-" THEN W1 ELSE MCEmit(W1, Forwarded(name), arg, segs)

(***************************************************************************)
(* WebSocketClient                                                         *)
(***************************************************************************)
\* if (this.connectionTimer) { clearTimeout(this.connectionTimer);
\*                            this.connectionTimer = null; }
ClearConnectionTimer(W, c) ==
  LET t == W.cl[c].connectionTimer
  IN  IF t = 0 THEN W
      ELSE [W EXCEPT !.so[t].timer = "idle", !.cl[c].connectionTimer = 0]

\* socket.close() of the ws library: starts the closing handshake
SocketClose(W, s) ==
  [W EXCEPT !.so[s].readyState =
     IF @ \in {"CONNECTING", "OPEN"} THEN "CLOSING" ELSE @]

\* WebSocketClient.close(): part_006 lines 336-348
WS_close(W, c) ==
  LET W1 == ClearConnectionTimer(W, c)
      W2 == IF W1.cl[c].socket # 0 THEN SocketClose(W1, W1.cl[c].socket) ELSE W1
  IN  [W2 EXCEPT !.cl[c].isServerReady = FALSE]

\* a filter that lets every segment through
currentInterim_Unfiltered(segments) == segments

\* data.segments.filter(segment => segment.completed === false)
currentInterim(segments) == SelectSeq(segments, LAMBDA g : g.completed = FALSE)

\* a hard error branch that only clears the timer
WS_handleHardError_Quiet(W, c, m) == ClearConnectionTimer(W, c)

\* an error handler that also closes the connection
WS_onHandlerError_Close(W, c, name) == WS_close(WSEmit(W, c, "error", name, <<>>), c)

\* the catch of _handleMessage: part_006 lines 192-195
WS_onHandlerError(W, c, name) == WSEmit(W, c, "error", name, <<>>)

\* the tail of _handleMessage, part_006 lines 158-190
HandleTranscription(W, c, m) ==
  IF m.hasSegments /\ m.segmentsType # "list"
  THEN \* data.segments.filter is not a function
       WS_onHandlerError(W, c, "TypeError")
  ELSE
  LET W1 == IF m.hasSegments /\ Len(currentInterim(m.segments)) > 0
            THEN WSEmit(W, c, "segments", "list", currentInterim(m.segments))
            ELSE W
      W2 == IF m.translated_segments
            THEN WSEmit(W1, c, "translatedSegments", "list", <<>>) ELSE W1
      W3 == IF m.segment THEN WSEmit(W2, c, "finalizedSegment", "segment", <<>>) ELSE W2
      W4 == IF m.translated_segment
            THEN WSEmit(W3, c, "finalizedTranslatedSegment", "segment", <<>>) ELSE W3
      W5 == IF m.audio THEN WSEmit(W4, c, "finalizedSegmentAudioURL", "url", <<>>) ELSE W4
  IN  WSEmit(W5, c, "transcription", "data", <<>>)

\* String.prototype.toLowerCase, word by word
ToLowerCase(text) ==
  [i \in 1..Len(text) |->
     CASE text[i] = "Invalid"        -> "invalid"
       [] text[i] = "TOKEN"          -> "token"
       [] text[i] = "Authentication" -> "authentication"
       [] text[i] = "DISCONNECT"     -> "disconnect"
       [] text[i] = "Unknown"        -> "unknown"
       [] OTHER                      -> text[i]]

\* String.prototype.includes on sequences of words
Includes(text, keyword) ==
  \E i \in 0..Len(text) :
    /\ i + Len(keyword) <= Len(text)
    /\ \A j \in 1..Len(keyword) : text[i + j] = keyword[j]

\* authKeywords: part_006 lines 227-232
authKeywords ==
  {<<"unauthorized">>, <<"authentication">>, <<"invalid", "api", "key">>,
   <<"api", "key">>, <<"forbidden">>, <<"access", "denied">>, <<"invalid", "token">>,
   <<"invalid", "key">>, <<"authentication", "failed">>, <<"invalid", "credentials">>,
   <<"token", "expired">>, <<"key", "not", "found">>, <<"permission", "denied">>}

\* WebSocketClient._isAuthenticationError: part_006 lines 223-243, for an
\* errorMessage that is a string
WS_isAuthenticationError(errorMessage, m) ==
  IF errorMessage = <<>> THEN FALSE
  ELSE LET message     == ToLowerCase(errorMessage)
           isAuthError == \E keyword \in authKeywords : Includes(message, keyword)
       IN  IF m.status_code = 401 \/ m.status_code = 403 THEN TRUE ELSE isAuthError

\* data.message || data.error || 'Unknown error': its words, and whether the
\* value is a string at all
ErrorMessage(m) ==
  CASE m.message = "text"       -> [isString |-> TRUE, words |-> m.words]
    [] m.message = "DISCONNECT" -> [isString |-> TRUE, words |-> <<"DISCONNECT">>]
    [] m.error                  -> [isString |-> m.errorType = "string",
                                    words |-> IF m.errorType = "string" THEN m.errorWords
                                              ELSE <<>>]
    [] OTHER                    -> [isString |-> TRUE, words |-> <<"Unknown", "error">>]

\* the message of the authentication error, part_006 line 117 (abridged)
AuthErrorText == <<"Connection", "failed:", "Authentication", "error.">>

\* the hard error branch of _handleMessage, part_006 lines 105-125.  On an
\* errorMessage that is no string, toLowerCase (line 226) throws a TypeError,
\* which the catch of lines 192-195 emits as the 'error'.
WS_handleHardError(W, c, m) ==
  LET e  == ErrorMessage(m)
      W1 == ClearConnectionTimer(W, c)
  IN  IF ~e.isString THEN WSEmit(W1, c, "error", "TypeError", <<>>)
      ELSE IF WS_isAuthenticationError(e.words, m)
        THEN WSEmit(W1, c, "error", "auth", AuthErrorText)
      ELSE WSEmit(W1, c, "error", "generic", <<"Connection", "failed:">> \o e.words)

\* a filter that lets every message pass
NotForThisClient_Never(m) == FALSE

\* data.uid && data.uid !== this.uuid: part_006 line 92
NotForThisClient(m) == m.uid = "other"

\* WebSocketClient._handleMessage: part_006 lines 78-196
WS_handleMessage(W, c, s, m) ==
  IF m.data = "arraybuffer" THEN WSEmit(W, c, "binaryData", "data", <<>>)
  ELSE IF m.data = "text" THEN WS_onHandlerError(W, c, "SyntaxError")
  ELSE IF NotForThisClient(m) THEN W
  ELSE IF m.status = "WAIT" THEN WSEmit(W, c, "error", "wait", <<>>)
  ELSE IF m.status = "ERROR" \/ m.error
    THEN WS_handleHardError(W, c, m)
  ELSE IF ~W.cl[c].isServerReady
    THEN LET W1 == [W EXCEPT !.cl[c].isServerReady = TRUE,
                             !.so[s].readyCount = Count(@)]
         IN  WSEmit(ClearConnectionTimer(W1, c), c, "ready", "-", <<>>)
  ELSE IF W.cl[c].sourceLanguage = "null" /\ m.language
    THEN WSEmit([W EXCEPT !.cl[c].sourceLanguage = "detected"], c,
                "languageDetected", "detected", <<>>)
  ELSE IF m.message = "DISCONNECT"
    THEN WS_close(WSEmit([W EXCEPT !.so[s].disconnected = TRUE], c,
                         "disconnect", "-", <<>>), c)
  ELSE HandleTranscription(W, c, m)

\* a timeout callback that reports the error and leaves the connection as it is
WS_onTimeout_NoClose(W, c) ==
  IF ~W.cl[c].isServerReady THEN WSEmit(W, c, "error", "timeout", <<>>) ELSE W

\* the setTimeout callback of connect(): part_006 lines 294-302
\* (reject(error) has no effect: onopen resolved the promise right after arming)
WS_onTimeout(W, c) ==
  IF ~W.cl[c].isServerReady
  THEN WS_close(WSEmit(W, c, "error", "timeout", <<>>), c)
  ELSE W

\* socket.onopen: part_006 lines 264-305
WS_onopen(W, c, s) ==
  [W EXCEPT !.so[s].opened = TRUE,
            !.so[s].config = ConfigRecord(W.cl[c]),
            !.so[s].first = IF @ = "none" THEN "config" ELSE @,
            !.so[s].timer = "pending",
            !.cl[c].connectionTimer = s]

\* socket.onerror: part_006 lines 311-314; reject(error) reaches the catch of
\* MaestraClient.connect() (maestra-client.js line 103) unless onopen resolved
WS_onerror(W, c, s) ==
  IF ~W.so[s].opened THEN MCEmit(W, "error", "socket", <<>>) ELSE W

\* WebSocketClient.connect(): part_006 lines 249-321; a rejection reaches the
\* catch of MaestraClient.connect()
WS_connect(W, c) ==
  IF ~WS_validateApiKey(W.cl[c].apiKey)
  THEN MCEmit(WSEmit(W, c, "error", "apikey", <<>>), "error", "apikey", <<>>)
  ELSE [W EXCEPT !.so = Append(@, NewSocket(c)),
                 !.cl[c].socket = Len(W.so) + 1]

\* a sendAudio that writes whatever the state of the connection
WS_sendAudio_Unguarded(W, c, audioData) ==
  LET s == W.cl[c].socket
  IN  IF s # 0 THEN [W EXCEPT !.out = Append(@, [sock |-> s, frame |-> audioData]),
                              !.so[s].first = IF @ = "none" THEN "audio" ELSE @]
      ELSE W

\* WebSocketClient.sendAudio: part_006 lines 327-331
WS_sendAudio(W, c, audioData) ==
  LET s == W.cl[c].socket
  IN  IF s # 0 /\ W.so[s].readyState = "OPEN" /\ W.cl[c].isServerReady
      THEN [W EXCEPT !.out = Append(@, [sock |-> s, frame |-> audioData]),
                     !.so[s].first = IF @ = "none" THEN "audio" ELSE @]
      ELSE W

(***************************************************************************)
(* Capture sources                                                         *)
(***************************************************************************)
\* FfmpegProcessor.start: part_003 lines 48-93.  pipe() asks fluent-ffmpeg to
\* spawn the process, which happens on a later turn of the event loop.
Ffmpeg_start(W, p) ==
  IF W.pr[p].isProcessing THEN W
  ELSE [W EXCEPT !.pr[p].isProcessing = TRUE, !.pr[p].handle = TRUE,
                 !.pr[p].source = "starting"]

\* FfmpegProcessor.stop: part_003 lines 98-104.  kill() signals the spawned
\* process; fluent-ffmpeg ignores it while no process has been spawned yet.
Ffmpeg_stop(W, p) ==
  LET W1 == IF W.pr[p].handle
            THEN [W EXCEPT !.pr[p].source = IF @ = "running" THEN "dead" ELSE @,
                           !.pr[p].handle = FALSE]
            ELSE W
  IN  [W1 EXCEPT !.pr[p].isProcessing = FALSE, !.pr[p].stopped = TRUE]

\* MicrophoneProcessor.start up to its await: part_005 lines 28-36
Mic_start(W, p) ==
  IF W.pr[p].isProcessing THEN W
  ELSE [W EXCEPT !.pr[p].source = "starting"]

\* MicrophoneProcessor.start after the await, recording started: lines 34-83
Mic_startResumed(W, p) ==
  [W EXCEPT !.pr[p].resampler = TRUE, !.pr[p].isProcessing = TRUE,
            !.pr[p].handle = TRUE, !.pr[p].source = "running"]

\* MicrophoneProcessor.stop: part_005 lines 94-105
Mic_stop(W, p) ==
  LET W1 == IF W.pr[p].handle
            THEN [W EXCEPT !.pr[p].source = IF @ = "running" THEN "dead" ELSE @,
                           !.pr[p].handle = FALSE]
            ELSE W
      W2 == IF W1.pr[p].resampler THEN [W1 EXCEPT !.pr[p].resampler = FALSE] ELSE W1
  IN  [W2 EXCEPT !.pr[p].isProcessing = FALSE, !.pr[p].stopped = TRUE]

\* StreamInputProcessor.start: stream-input-processor.js lines 25-44.  The
\* new PassThrough starts flowing on a later turn of the event loop.
Stream_start(W, p) ==
  IF W.pr[p].isProcessing THEN W
  ELSE [W EXCEPT !.pr[p].isProcessing = TRUE, !.pr[p].handle = TRUE,
                 !.pr[p].source = "starting"]

\* StreamInputProcessor.stop: stream-input-processor.js lines 60-66.
\* end() closes the stream for writing; chunks it buffered are still read.
Stream_stop(W, p) ==
  LET W1 == IF W.pr[p].handle
            THEN [W EXCEPT !.pr[p].source = IF @ = "running" THEN "dead" ELSE @,
                           !.pr[p].handle = FALSE]
            ELSE W
  IN  [W1 EXCEPT !.pr[p].isProcessing = FALSE, !.pr[p].stopped = TRUE]

\* MicrophoneProcessor.start after the await when recording cannot be started:
\* the catch of part_005 lines 85-88
Mic_startFailed(W, p) ==
  MCEmit([W EXCEPT !.pr[p].resampler = TRUE, !.pr[p].isProcessing = FALSE,
                   !.pr[p].source = "dead"], "error", "source", <<>>)

\* the 'error' handler of FfmpegProcessor.start, part_003 lines 71-75:
\* onErrorCallback, then reject(err), which reaches the catch of
\* MaestraClient.transcribe (line 134) while start() has not resolved
Ffmpeg_onError(W, p) ==
  LET W1 == MCEmit([W EXCEPT !.pr[p].isProcessing = FALSE, !.pr[p].source = "dead"],
                   "error", "source", <<>>)
  IN  IF W.pr[p].source = "starting" THEN MCEmit(W1, "error", "source", <<>>) ELSE W1

\* the 'end' handler of FfmpegProcessor.start, part_003 lines 76-78
Ffmpeg_onEnd(W, p) ==
  [W EXCEPT !.pr[p].isProcessing = FALSE, !.pr[p].source = "dead"]

\* the micStream 'error' handler, part_005 lines 77-80
Mic_onError(W, p) ==
  MCEmit([W EXCEPT !.pr[p].isProcessing = FALSE, !.pr[p].source = "dead"],
         "error", "source", <<>>)

\* what the processor hands to onAudioCallback for a block of its stream:
\* new Float32Array(new Uint8Array(chunk).buffer) (part_003 lines 83-84),
\* this.resampler.simple(pcmData) of the int16 samples (part_005 lines 57-67),
\* the chunk itself (stream-input-processor.js lines 33-36)
AudioData(kind, block) ==
  [block |-> block,
   form  |-> CASE kind = "ffmpeg" -> "float32"
               [] kind = "mic"    -> "resampled"
               [] OTHER           -> "chunk"]

\* a stream that hands out its newest block first
NextBlock_Newest(buf) == buf[Len(buf)]

\* the block a stream's 'data' listener receives next
NextBlock(buf) == Head(buf)

Proc_start(W, p) ==
  CASE W.pr[p].kind = "ffmpeg" -> Ffmpeg_start(W, p)
    [] W.pr[p].kind = "mic"    -> Mic_start(W, p)
    [] OTHER                   -> Stream_start(W, p)

Proc_stop(W, p) ==
  CASE W.pr[p].kind = "ffmpeg" -> Ffmpeg_stop(W, p)
    [] W.pr[p].kind = "mic"    -> Mic_stop(W, p)
    [] OTHER                   -> Stream_stop(W, p)

(***************************************************************************)
(* MaestraClient                                                           *)
(***************************************************************************)
\* MaestraClient._initWebSocketClient: maestra-client.js lines 55-92; the
\* options it hands to the WebSocketClient (lines 63-72) carry neither the
\* legacy language key nor useVad
MC_initWebSocketClient(W, opts) ==
  IF W.mc.websocketClient # 0 THEN W
  ELSE [W EXCEPT !.cl = Append(@, NewWSClient([sourceLanguage |-> opts.sourceLanguage,
                                               language |-> "undefined",
                                               apiKey |-> opts.apiKey,
                                               targetLanguage |-> opts.targetLanguage,
                                               useVad |-> "undefined"])),
                 !.mc.websocketClient = Len(W.cl) + 1]

\* MaestraClient.connect: maestra-client.js lines 99-105; opts is this.options
MC_connect(W, opts) ==
  LET W1 == MC_initWebSocketClient(W, opts)
  IN  WS_connect(W1, W1.mc.websocketClient)

\* streamProcessor.onAudioCallback as wired by transcribe():
\* maestra-client.js lines 123-127
MC_onAudio(W, audioData) ==
  IF W.mc.websocketClient # 0 THEN WS_sendAudio(W, W.mc.websocketClient, audioData)
  ELSE W

\* streamProcessor.onErrorCallback as wired by transcribe(): lines 129-131
MC_onError(W) == MCEmit(W, "error", "source", <<>>)

\* a transcribe() that replaces the running session instead of refusing
MC_transcribe_Replace(W, kind) ==
  IF W.mc.websocketClient = 0 \/ ~W.cl[W.mc.websocketClient].isServerReady
    THEN MCEmit(W, "error", "notready", <<>>)
  ELSE LET p  == Len(W.pr) + 1
           W1 == [W EXCEPT !.pr = Append(@, NewProcessor(kind)),
                           !.mc.streamProcessor = p]
           W2 == Proc_start(W1, p)
       IN  MCEmit([W2 EXCEPT !.mc.isTranscribing = TRUE], "transcription-started",
                  "-", <<>>)

\* MaestraClient.transcribe: maestra-client.js lines 112-140
MC_transcribe(W, kind) ==
  IF W.mc.isTranscribing
    THEN MCEmit(W, "error", "already", <<>>)
  ELSE IF W.mc.websocketClient = 0 \/ ~W.cl[W.mc.websocketClient].isServerReady
    THEN MCEmit(W, "error", "notready", <<>>)
  ELSE LET p  == Len(W.pr) + 1
           W1 == [W EXCEPT !.pr = Append(@, NewProcessor(kind)),
                           !.mc.streamProcessor = p]
           W2 == Proc_start(W1, p)
       IN  MCEmit([W2 EXCEPT !.mc.isTranscribing = TRUE], "transcription-started",
                  "-", <<>>)

\* MaestraClient.stop: maestra-client.js lines 146-161
MC_stop(W) ==
  LET W1 == IF W.mc.streamProcessor # 0
            THEN [Proc_stop(W, W.mc.streamProcessor) EXCEPT !.mc.streamProcessor = 0]
            ELSE W
      W2 == IF W1.mc.websocketClient # 0
            THEN [WS_close(W1, W1.mc.websocketClient) EXCEPT !.mc.websocketClient = 0]
            ELSE W1
  IN  MCEmit([W2 EXCEPT !.mc.isTranscribing = FALSE], "transcription-stopped", "-", <<>>)

(***************************************************************************)
(* Actions                                                                 *)
(***************************************************************************)
Commit(W, act, s, p, m) ==
  /\ clients' = W.cl
  /\ socks' = W.so
  /\ mc' = W.mc
  /\ procs' = W.pr
  /\ emitted' = W.ev
  /\ mcEmitted' = W.mev
  /\ audioOut' = W.out
  /\ last' = [act |-> act, sock |-> s, proc |-> p, msg |-> m,
              wasReady |-> IF s = 0 THEN FALSE ELSE clients[socks[s].owner].isServerReady,
              lang |-> IF s = 0 THEN "-" ELSE clients[socks[s].owner].sourceLanguage]
  /\ UNCHANGED <<options, rs, mic, vmix>>

\* no resampling node has been set up
NoResampler ==
  [path |-> "none", from |-> 1, to |-> 1, signal |-> <<>>, fed |-> 0,
   currentFrame |-> 0,   \* frames rendered so far (the audio clock)
   lastSample |-> 0, nextSample |-> 0, writeIndex |-> 0, out |-> <<>>,
   blockLen |-> 0,       \* length of the last block; -1: no input in that quantum
   posted |-> FALSE,
   outcome |-> "none"]   \* how the last call ended: ok | RangeError | loops

\* new MicrophoneProcessor(): part_005 lines 12-20.  Besides the fields of the
\* object the record keeps what the calls have created: the recordings that
\* are running and the resamplers that have not been destroyed.
NewMicrophoneProcessor ==
  [isProcessing |-> FALSE, microphone |-> 0, micStream |-> 0, resampler |-> 0,
   pending |-> 0,          \* calls of start() waiting in `await create(...)`
   created |-> 0,          \* calls of start() that have resumed
   stops |-> 0,            \* calls of stop()
   recordings |-> {}, resamplers |-> {},
   op |-> "new"]

\* a string is a sequence of characters; the word that breaks a line
LineBreak == <<"\n">>

\* new VmixProcessor(options) with maxLineLength: part_005 lines 129-158.
\* Besides the fields of the object the record keeps the clock, the requests
\* to vMix that are waiting for their answer, the failures so far, the last
\* caption that was sent and the events of the last step.
NewVmixProcessor ==
  [maxLineLength |-> MaxLine,
   isInitialized |-> FALSE, maestraClient |-> FALSE, intervalId |-> FALSE,
   transcriptBuffer |-> <<>>, currentTranscriptTimestamp |-> 0,
   transcriptCurrentlyDisplayed |-> <<>>, errorTimestamps |-> <<>>,
   now |-> 0, inFlight |-> 0, failures |-> <<>>,
   attachments |-> 0, lost |-> 0,
   sent |-> <<>>,          \* the caption the last step sent
   skipped |-> FALSE,      \* the last step was a tick that sent nothing
   scrolled |-> FALSE,     \* the last step was a tick that dropped the first line
   emitted |-> <<>>, op |-> "new"]

\* no MicrophoneProcessor is driven directly, no VmixProcessor has been made
NotConstructed == [op |-> "none"]

\* the objects of the SDK after new MaestraClient(options)
InitOptions(users) ==
  /\ options \in users
  /\ clients = <<>>
  /\ socks = <<>>
  /\ mc = NewMaestraClient
  /\ procs = <<>>
  /\ emitted = <<>>
  /\ mcEmitted = <<>>
  /\ audioOut = <<>>
  /\ last = [act |-> "init", sock |-> 0, proc |-> 0, msg |-> NoMsg,
             wasReady |-> FALSE, lang |-> "-"]

\* for a caller that passes apiKey and may pass sourceLanguage
InitObjects(keys, langs) ==
  InitOptions({UserOptions(k, l, "undefined", "undefined", "undefined") :
                 k \in keys, l \in langs})

InitWith(keys, langs) ==
  /\ InitObjects(keys, langs)
  /\ rs = NoResampler
  /\ mic = NotConstructed
  /\ vmix = NotConstructed

\* the application calls client.connect()
Connect ==
  /\ (mc.websocketClient = 0) => Len(clients) < MaxClients
  /\ WS_validateApiKey(options.apiKey) => Len(socks) < MaxSockets
  /\ Commit(MC_connect(World, MC_options(options)), "connect", 0, 0, NoMsg)

\* the application calls client.transcribe(new XProcessor(...))
Transcribe ==
  \E kind \in {"ffmpeg", "mic", "stream"} :
    /\ Len(procs) < MaxProcs
    /\ Commit(MC_transcribe(World, kind), "transcribe", 0, 0, NoMsg)

\* the application calls client.stop()
Stop ==
  /\ Len(clients) <= MaxClients
  /\ Commit(MC_stop(World), "stop", 0, 0, NoMsg)

\* the ws library reports the connection established
SocketOpen ==
  \E s \in 1..Len(socks) :
    /\ socks[s].readyState = "CONNECTING"
    /\ Commit(WS_onopen([World EXCEPT !.so[s].readyState = "OPEN"], socks[s].owner, s),
              "open", s, 0, NoMsg)

\* the ws library delivers an inbound text message of the set M
SocketMessage(M) ==
  \E s \in 1..Len(socks), m \in M :
    /\ socks[s].readyState \in {"OPEN", "CLOSING"}
    /\ socks[s].opened
    /\ Commit(WS_handleMessage(World, socks[s].owner, s, m), "message", s, 0, m)

\* the connection timeout elapses
Timeout ==
  \E s \in 1..Len(socks) :
    /\ socks[s].timer = "pending"
    /\ Commit(WS_onTimeout([World EXCEPT !.so[s].timer = "idle"], socks[s].owner),
              "timeout", s, 0, NoMsg)

\* the ws library reports a socket error (connection refused, handshake
\* aborted by close(), protocol error); the socket is closed with it
SocketError ==
  \E s \in 1..Len(socks) :
    /\ socks[s].readyState # "CLOSED"
    /\ Commit(WS_onerror([World EXCEPT !.so[s].readyState = "CLOSED"], socks[s].owner, s),
              "socketerror", s, 0, NoMsg)

\* an established connection is closed (by the peer, or the closing handshake
\* completes); socket.onclose (part_006 lines 307-309) only calls onClose
SocketClosed ==
  \E s \in 1..Len(socks) :
    /\ socks[s].readyState \in {"OPEN", "CLOSING"}
    /\ socks[s].opened
    /\ Commit([World EXCEPT !.so[s].readyState = "CLOSED"], "socketclose", s, 0, NoMsg)

\* a pending start completes: the ffmpeg process is spawned ('start' event),
\* LibSampleRate.create resolves and recording starts, or the PassThrough
\* starts flowing
ProcStarted ==
  \E p \in 1..Len(procs) :
    /\ procs[p].source = "starting"
    /\ Commit(CASE procs[p].kind = "mic"    -> Mic_startResumed(World, p)
                [] procs[p].kind = "ffmpeg" -> [World EXCEPT !.pr[p].source = "running"]
                [] OTHER -> [World EXCEPT !.pr[p].source =
                                            IF World.pr[p].handle THEN "running" ELSE "dead"],
              "started", 0, p, NoMsg)

\* the running process or device produces a block of the set B into the
\* processor's stream, which holds up to cap blocks
Produce(B, cap) ==
  \E p \in 1..Len(procs), b \in B :
    /\ procs[p].kind \in {"ffmpeg", "mic"}
    /\ procs[p].source = "running"
    /\ Len(procs[p].buf) < cap
    /\ Commit([World EXCEPT !.pr[p].buf = Append(@, b)], "produce", 0, p, NoMsg)

\* the stream's 'data' listener (part_003 lines 82-85; stream-input-processor.js
\* lines 33-36) or the microphone's transform (part_005 lines 54-73) runs on a
\* buffered block
DeliverBlock ==
  \E p \in 1..Len(procs) :
    /\ procs[p].buf # <<>>
    /\ procs[p].source \in {"running", "dead"}
    /\ LET W == [World EXCEPT !.pr[p].buf = Tail(@)]
       IN  IF procs[p].kind = "mic" /\ ~procs[p].resampler
           THEN Commit(MC_onError(W), "blockerror", 0, p, NoMsg)
           ELSE Commit(MC_onAudio(W, AudioData(procs[p].kind, NextBlock(procs[p].buf))),
                       "audio", 0, p, NoMsg)

\* StreamInputProcessor.pushAudio: stream-input-processor.js lines 50-55, with
\* a chunk of the set B.  The chunk is buffered (up to cap chunks) while the
\* stream does not flow yet or still holds earlier chunks, and handed to the
\* 'data' listener at once otherwise.
PushAudio(B, cap) ==
  \E p \in 1..Len(procs), b \in B :
    /\ procs[p].kind = "stream"
    /\ procs[p].isProcessing /\ procs[p].handle
    /\ IF procs[p].source = "starting" \/ procs[p].buf # <<>>
       THEN /\ Len(procs[p].buf) < cap
            /\ Commit([World EXCEPT !.pr[p].buf = Append(@, b)], "push", 0, p, NoMsg)
       ELSE Commit(MC_onAudio(World, AudioData("stream", b)), "audio", 0, p, NoMsg)

\* a pending start fails: ffmpeg reports an error before 'start', or the
\* microphone cannot be recorded from
ProcStartFailed ==
  \E p \in 1..Len(procs) :
    /\ procs[p].kind \in {"ffmpeg", "mic"}
    /\ procs[p].source = "starting"
    /\ Commit(IF procs[p].kind = "mic" THEN Mic_startFailed(World, p)
              ELSE Ffmpeg_onError(World, p),
              "startfailed", 0, p, NoMsg)

\* the running source reports an error
ProcError ==
  \E p \in 1..Len(procs) :
    /\ procs[p].kind \in {"ffmpeg", "mic"}
    /\ procs[p].source = "running"
    /\ Commit(IF procs[p].kind = "mic" THEN Mic_onError(World, p)
              ELSE Ffmpeg_onError(World, p),
              "sourceerror", 0, p, NoMsg)

\* the ffmpeg process reaches the end of its input
ProcEnd ==
  \E p \in 1..Len(procs) :
    /\ procs[p].kind = "ffmpeg"
    /\ procs[p].source = "running"
    /\ Commit(Ffmpeg_onEnd(World, p), "end", 0, p, NoMsg)

ConnectionNext ==
  \/ Connect
  \/ Stop
  \/ SocketOpen
  \/ Timeout
  \/ SocketError
  \/ SocketClosed

SourceNext ==
  \/ Transcribe
  \/ ProcStarted
  \/ DeliverBlock
  \/ ProcStartFailed
  \/ ProcError
  \/ ProcEnd

\* the connection life cycle of a MaestraClient
Init == InitWith({ValidKey, UndefinedKey}, {"undefined"})

Next == ConnectionNext \/ SocketMessage(LifecycleMsgs)

Spec == Init /\ [][Next]_vars

\* the classification of inbound messages on a client's first connection
FirstConnect == Len(socks) = 0 /\ Connect

InitDemux == InitWith({ValidKey}, {"undefined", "auto", "en"})

NextDemux ==
  \/ FirstConnect
  \/ Stop
  \/ SocketOpen
  \/ Timeout
  \/ SocketError
  \/ SocketClosed
  \/ SocketMessage(Messages)

SpecDemux == InitDemux /\ [][NextDemux]_vars

\* streaming sessions: connection plus capture sources
SessionMsgs == {PlainMsg, [PlainMsg EXCEPT !.message = "DISCONNECT"]}

InitSession == InitWith({ValidKey}, {"undefined"})

\* in a session the content of a block plays no part
SessionBlocks == {"a"}

NextSession ==
  \/ ConnectionNext
  \/ SourceNext
  \/ Produce(SessionBlocks, MaxBuf)
  \/ PushAudio(SessionBlocks, MaxBuf)
  \/ SocketMessage(SessionMsgs)

SpecSession == InitSession /\ [][NextSession]_vars

\* the classification of hard errors on a client's first connection
NextErrors ==
  \/ FirstConnect
  \/ Stop
  \/ SocketOpen
  \/ Timeout
  \/ SocketError
  \/ SocketClosed
  \/ SocketMessage(ErrorMsgs \cup {PlainMsg})

SpecErrors == InitSession /\ [][NextErrors]_vars

\* the events of hard errors: the error messages with texts of one word
HardErrorMsgs == {m \in ErrorMsgs : Len(m.words) <= 1 /\ Len(m.errorWords) <= 1}

NextHardErrors ==
  \/ FirstConnect
  \/ Stop
  \/ SocketOpen
  \/ Timeout
  \/ SocketError
  \/ SocketClosed
  \/ SocketMessage(HardErrorMsgs \cup {PlainMsg})

SpecHardErrors == InitSession /\ [][NextHardErrors]_vars

\* the path of the audio blocks of a client's first session
Blocks == {"a", "b"}

FirstTranscribe == Len(procs) = 0 /\ Transcribe

NextFifo ==
  \/ FirstConnect
  \/ FirstTranscribe
  \/ Stop
  \/ SocketOpen
  \/ SocketClosed
  \/ SocketMessage({PlainMsg})
  \/ ProcStarted
  \/ Produce(Blocks, MaxQueue)
  \/ PushAudio(Blocks, MaxQueue)
  \/ DeliverBlock
  \/ ProcError

SpecFifo == InitSession /\ [][NextFifo]_vars

\* transcribe() called at any time of a client's first connection
NextTranscribe ==
  \/ FirstConnect
  \/ Transcribe
  \/ Stop
  \/ SocketOpen
  \/ SocketMessage(SessionMsgs)
  \/ ProcStarted
  \/ PushAudio(SessionBlocks, MaxBuf)

SpecTranscribe == InitSession /\ [][NextTranscribe]_vars

\* the options of the constructor and what connect() makes of them.  A caller
\* names the source language with sourceLanguage or with the legacy key
\* language, not with both, and a language is null or a language code.
InitConfig ==
  /\ InitOptions({u \in {UserOptions(k, l, g, t, v) :
                           k \in ApiKeys, l \in {"undefined", "null", "auto", "en"},
                           g \in {"undefined", "en"}, t \in {"undefined", "null", "fr"},
                           v \in {"undefined", "true", "false"}} :
                    u.sourceLanguage = "undefined" \/ u.language = "undefined"})
  /\ rs = NoResampler
  /\ mic = NotConstructed
  /\ vmix = NotConstructed

NextConfig ==
  \/ Connect
  \/ FirstTranscribe
  \/ SocketOpen
  \/ SocketMessage({PlainMsg})
  \/ ProcStarted
  \/ PushAudio(SessionBlocks, MaxBuf)
  \/ DeliverBlock

SpecConfig == InitConfig /\ [][NextConfig]_vars

(***************************************************************************)
(* The resampler of the browser demo (part_000 lines 915-1044).  Sample    *)
(* values and times are exact: a time is compared by cross-multiplying     *)
(* with the rates, and an output sample is held as its value times the     *)
(* output rate (the interpolation weight timeDiff / sampleTimeDiff is      *)
(* (writeIndex * from - g * to) / to for the input sample of index g).     *)
(***************************************************************************)
Samples == {1, 2}

\* the rates the functions may be called with; the demo itself passes
\* audioContext.sampleRate and 16000
Rates == (-1)..MaxRate

ValidRates == rs.from > 0 /\ rs.to > 0

\* p1 / q1 < p2 / q2 as JavaScript evaluates it for integers p and q:
\* 0 / 0 is NaN (every comparison false), p / 0 is +Infinity or -Infinity
JsLess(p1, q1, p2, q2) ==
  IF (q1 = 0 /\ p1 = 0) \/ (q2 = 0 /\ p2 = 0) THEN FALSE
  ELSE IF q1 = 0 THEN p1 < 0 /\ ~(q2 = 0 /\ p2 < 0)
  ELSE IF q2 = 0 THEN p2 > 0
  ELSE IF q1 * q2 > 0 THEN p1 * q2 < p2 * q1
  ELSE p1 * q2 > p2 * q1

\* Math.ceil(a / b) for b > 0
CeilDiv(a, b) == -((-a) \div b)

\* new Float32Array(Math.ceil(n * (to / from)) + extra): its length, or -1
\* when the constructor throws a RangeError (negative or infinite length);
\* a NaN length gives an empty array
ArrayLength(n, from, to, extra) ==
  IF from = 0
  THEN IF n = 0 \/ to = 0 THEN 0 ELSE -1
  ELSE LET len == (IF from > 0 THEN CeilDiv(n * to, from)
                   ELSE CeilDiv(-(n * to), -from)) + extra
       IN  IF len < 0 THEN -1 ELSE len

Take(q, n) == IF Len(q) <= n THEN q ELSE SubSeq(q, 1, n)

\* iterations after which a while loop is known not to end: a loop that
\* ends passes each tick below (g + 1) / from at most once
Fuel(g, to) == (g + 2) * (IF to < 0 THEN -to ELSE to) + 2

\* the while loop of both resamplers (part_000 lines 944-958, 1029-1041) for
\* the input sample of time index g: w is writeIndex, out the output written
\* so far.  A tick that lies before the sample is passed over: the worklet
\* writes nothing for it, resample() leaves the zero of the fresh result
\* array at its index (gaps = TRUE).
RECURSIVE WhileTicks(_, _, _, _, _, _, _, _, _)
WhileTicks(w, out, lastSample, nextSample, g, from, to, gaps, fuel) ==
  IF fuel = 0 THEN [writeIndex |-> w, out |-> out, loops |-> TRUE]
  ELSE IF JsLess(w, to, g + 1, from)
  THEN IF JsLess(w, to, g, from)
       THEN WhileTicks(w + 1, IF gaps THEN Append(out, 0) ELSE out,
                       lastSample, nextSample, g, from, to, gaps, fuel - 1)
       ELSE LET weight == w * from - g * to
            IN  WhileTicks(w + 1,
                           Append(out, lastSample * (to - weight) + nextSample * weight),
                           lastSample, nextSample, g, from, to, gaps, fuel - 1)
  ELSE [writeIndex |-> w, out |-> out, loops |-> FALSE]

\* the for loop of both resamplers (part_000 lines 937-959, 1022-1042) from
\* input[i] on; base is the time index of input[1]
RECURSIVE ForSamples(_, _, _, _, _, _, _, _)
ForSamples(input, i, base, st, out, from, to, gaps) ==
  IF i > Len(input) THEN [st |-> st, out |-> out, loops |-> FALSE]
  ELSE LET r == WhileTicks(st.writeIndex, out, st.nextSample, input[i],
                           base + i - 1, from, to, gaps, Fuel(base + i - 1, to))
       IN  IF r.loops THEN [st |-> st, out |-> out, loops |-> TRUE]
           ELSE ForSamples(input, i + 1, base,
                           [lastSample |-> st.nextSample, nextSample |-> input[i],
                            writeIndex |-> r.writeIndex],
                           r.out, from, to, gaps)

\* a process() that writes a sample even for a block without samples
Resampler_process_Eager(st, input, currentFrame, from, to) ==
  [outcome |-> "ok", st |-> [st EXCEPT !.writeIndex = @ + 1], posted |-> TRUE,
   out |-> <<st.nextSample * to>>]

\* Resampler.process of the AudioWorklet: part_000 lines 926-968.  st is the
\* processor's state, currentFrame the number of frames rendered before this
\* block.  Writes beyond the result array are dropped by the typed array.
Resampler_process(st, input, currentFrame, from, to) ==
  LET newLength == ArrayLength(Len(input), from, to, 1)
      r == ForSamples(input, 1, currentFrame, st, <<>>, from, to, FALSE)
  IN  IF newLength < 0
        THEN [outcome |-> "RangeError", st |-> st, posted |-> FALSE, out |-> <<>>]
      ELSE IF r.loops
        THEN [outcome |-> "loops", st |-> st, posted |-> FALSE, out |-> <<>>]
      ELSE [outcome |-> "ok", st |-> r.st, posted |-> Len(r.out) > 0,
            out |-> Take(r.out, newLength)]

\* resample(audioBuffer, fromSampleRate, toSampleRate) of the ScriptProcessor
\* fallback: part_000 lines 1010-1044.  The result array has newLength
\* entries, zero where nothing was written.
resample(audioBuffer, from, to) ==
  IF from = to
  THEN [outcome |-> "ok", out |-> [i \in 1..Len(audioBuffer) |-> audioBuffer[i] * to]]
  ELSE LET newLength == ArrayLength(Len(audioBuffer), from, to, 0)
           r == ForSamples(audioBuffer, 1, 0,
                           [lastSample |-> 0, nextSample |-> 0, writeIndex |-> 0],
                           <<>>, from, to, TRUE)
       IN  IF newLength < 0 THEN [outcome |-> "RangeError", out |-> <<>>]
           ELSE IF r.loops THEN [outcome |-> "loops", out |-> <<>>]
           ELSE [outcome |-> "ok",
                 out |-> [i \in 1..newLength |-> IF i <= Len(r.out) THEN r.out[i] ELSE 0]]

\* the node is set up for one of the two paths (part_000 lines 899-904) and
\* will be fed a signal
InitResample ==
  /\ InitObjects({ValidKey}, {"undefined"})
  /\ rs \in {[NoResampler EXCEPT !.path = pa, !.from = f, !.to = o, !.signal = sg] :
               pa \in {"worklet", "script"}, f \in Rates, o \in Rates,
               sg \in SeqsUpTo(Samples, MaxSignal)}
  /\ mic = NotConstructed
  /\ vmix = NotConstructed

\* the next n samples of the signal
NextInput(n) == SubSeq(rs.signal, rs.fed + 1, rs.fed + n)

\* a call is made until one does not return normally
Callable(path) == rs.path = path /\ rs.outcome \in {"none", "ok"}

\* the audio thread calls Resampler.process with the next block; the node's
\* port.onmessage (part_000 lines 978-982) sends what it posts
WorkletProcess ==
  \E n \in 0..(Len(rs.signal) - rs.fed) :
    /\ Callable("worklet")
    /\ LET r == Resampler_process([lastSample |-> rs.lastSample,
                                   nextSample |-> rs.nextSample,
                                   writeIndex |-> rs.writeIndex],
                                  NextInput(n), rs.currentFrame, rs.from, rs.to)
       IN  rs' = [rs EXCEPT !.fed = @ + n, !.currentFrame = @ + n, !.blockLen = n,
                            !.lastSample = r.st.lastSample,
                            !.nextSample = r.st.nextSample,
                            !.writeIndex = r.st.writeIndex,
                            !.posted = r.posted,
                            !.outcome = r.outcome,
                            !.out = IF r.posted THEN @ \o r.out ELSE @]
    /\ UNCHANGED <<session, mic, vmix>>

\* the audio thread calls Resampler.process in a render quantum in which the
\* node has no input: `if (!input) return true` (part_000 line 928)
WorkletNoInput ==
  /\ Callable("worklet")
  /\ rs.currentFrame - rs.fed < MaxGap
  /\ rs' = [rs EXCEPT !.currentFrame = @ + 1, !.blockLen = -1, !.posted = FALSE,
                      !.outcome = "ok"]
  /\ UNCHANGED <<session, mic, vmix>>

\* scriptProcessor.onaudioprocess with the next block: part_000 lines 995-1001
OnAudioProcess ==
  \E n \in 0..(Len(rs.signal) - rs.fed) :
    /\ Callable("script")
    /\ LET r == resample(NextInput(n), rs.from, rs.to)
       IN  rs' = [rs EXCEPT !.fed = @ + n, !.currentFrame = @ + n, !.blockLen = n,
                            !.posted = (r.outcome = "ok"),
                            !.outcome = r.outcome,
                            !.out = @ \o r.out]
    /\ UNCHANGED <<session, mic, vmix>>

NextResample == WorkletProcess \/ WorkletNoInput \/ OnAudioProcess

SpecResample == InitResample /\ [][NextResample]_vars

(***************************************************************************)
(* MicrophoneProcessor driven directly: start() is async and gives up the  *)
(* thread at `await LibSampleRate.create(...)`, so other calls run between *)
(* its check of isProcessing and its assignments.                          *)
(***************************************************************************)

\* start() up to the await: part_005 lines 28-36
MicrophoneProcessor_start(m) ==
  IF m.isProcessing
  THEN [m EXCEPT !.op = "start"]
  ELSE [m EXCEPT !.pending = @ + 1, !.op = "start"]

\* start() from the await to its end: part_005 lines 34-83.  The resampler
\* that create() made is assigned, then the recording is started.
MicrophoneProcessor_startResumed(m) ==
  LET id == m.created + 1
  IN  [m EXCEPT !.resampler = id, !.resamplers = @ \cup {id},
                !.isProcessing = TRUE,
                !.microphone = id, !.micStream = id,
                !.recordings = @ \cup {id},
                !.pending = @ - 1, !.created = id, !.op = "resumed"]

\* stop(): part_005 lines 94-105
MicrophoneProcessor_stop(m) ==
  [m EXCEPT !.recordings = IF m.microphone # 0 THEN @ \ {m.microphone} ELSE @,
            !.microphone = 0, !.micStream = 0,
            !.resamplers = IF m.resampler # 0 THEN @ \ {m.resampler} ELSE @,
            !.resampler = 0,
            !.isProcessing = FALSE,
            !.stops = @ + 1, !.op = "stop"]

\* the application calls microphoneProcessor.start()
MicStart ==
  /\ mic.created + mic.pending < MaxStarts
  /\ mic' = MicrophoneProcessor_start(mic)
  /\ UNCHANGED <<session, rs, vmix>>

\* LibSampleRate.create() has resolved for the oldest waiting call
MicResume ==
  /\ mic.pending > 0
  /\ mic' = MicrophoneProcessor_startResumed(mic)
  /\ UNCHANGED <<session, rs, vmix>>

\* the application calls microphoneProcessor.stop()
MicStop ==
  /\ mic.stops < MaxStarts
  /\ mic' = MicrophoneProcessor_stop(mic)
  /\ UNCHANGED <<session, rs, vmix>>

\* the objects after new MicrophoneProcessor(options)
InitMic ==
  /\ InitObjects({ValidKey}, {"undefined"})
  /\ rs = NoResampler
  /\ mic = NewMicrophoneProcessor
  /\ vmix = NotConstructed

NextMic == MicStart \/ MicResume \/ MicStop

SpecMic == InitMic /\ [][NextMic]_vars

(***************************************************************************)
(* VmixProcessor: the captions it formats on every tick of its update      *)
(* interval, and the failures of its requests to vMix.  Strings are        *)
(* sequences of characters, the word list is a sequence of strings.        *)
(***************************************************************************)
MAX_ERRORS_IN_PERIOD == 10

ERROR_PERIOD_SECONDS == 30

\* a word longer than maxLineLength
LongWord == [i \in 1..(MaxLine + 1) |-> "c"]

\* the words text.split(" ") gives: the empty word comes from a leading or a
\* doubled space
CaptionWords == {<<>>, <<"a">>, <<"b", "b">>, LongWord}

RECURSIVE Join(_)
\* words.join(" ")
Join(words) ==
  IF words = <<>> THEN <<>>
  ELSE IF Len(words) = 1 THEN words[1]
  ELSE words[1] \o <<" ">> \o Join(Tail(words))

\* the texts of a segment: a text is not empty
CaptionTexts == {t \in SeqsUpTo(CaptionWords, MaxText) : Join(t) # <<>>}

\* the segments of a list: one word each, with the time they start
ListSegment == [start : 0..MaxStamp, words : {<<w>> : w \in CaptionWords \ {<<>>}}]

RECURSIVE ReplaceBreaks(_)
\* s.replace(/ \n /g, "\n")
ReplaceBreaks(s) ==
  IF s = <<>> THEN <<>>
  ELSE IF Len(s) >= 3 /\ SubSeq(s, 1, 3) = <<" ", "\n", " ">>
  THEN <<"\n">> \o ReplaceBreaks(SubSeq(s, 4, Len(s)))
  ELSE <<s[1]>> \o ReplaceBreaks(Tail(s))

WhiteSpace == {" ", "\n"}

RECURSIVE TrimWhiteStart(_)
TrimWhiteStart(s) ==
  IF s # <<>> /\ Head(s) \in WhiteSpace THEN TrimWhiteStart(Tail(s)) ELSE s

RECURSIVE TrimWhiteEnd(_)
TrimWhiteEnd(s) ==
  IF s # <<>> /\ s[Len(s)] \in WhiteSpace
  THEN TrimWhiteEnd(SubSeq(s, 1, Len(s) - 1)) ELSE s

\* s.trim()
TrimWhite(s) == TrimWhiteEnd(TrimWhiteStart(s))

\* the positions of a word in a list, counted from 1
Positions(d, w) == {i \in 1..Len(d) : d[i] = w}

\* d.lastIndexOf(w) + 1 and d.indexOf(w) + 1
LastIndexOf(d, w) ==
  IF Positions(d, w) = {} THEN 0
  ELSE CHOOSE i \in Positions(d, w) : \A j \in Positions(d, w) : j <= i

IndexOf(d, w) ==
  IF Positions(d, w) = {} THEN 0
  ELSE CHOOSE i \in Positions(d, w) : \A j \in Positions(d, w) : i <= j

\* d.splice(i, 0, w), for the position i counted from 1
InsertAt(d, i, w) == SubSeq(d, 1, i - 1) \o <<w>> \o SubSeq(d, i, Len(d))

\* the line wrapping of _sendAndFormatCaptions: part_005 lines 332-349.  The
\* loop stops at the first word with which the last line gets too long and
\* puts one line break before it.
Wrapped(d, max) ==
  LET first == LastIndexOf(d, LineBreak) + 1
      over == {i \in first..Len(d) : Len(Join(SubSeq(d, first, i))) > max}
  IN  IF over = {} THEN d
      ELSE InsertAt(d, CHOOSE i \in over : \A j \in over : i <= j, LineBreak)

\* a limit that keeps every line
TwoLines_Keep(d) == d

\* the two-line limit: part_005 lines 351-359
TwoLines(d) ==
  IF Cardinality(Positions(d, LineBreak)) >= 2
  THEN SubSeq(d, IndexOf(d, LineBreak) + 1, Len(d))
  ELSE d

\* the caption text: part_005 lines 361-364
Transcript(d) == TrimWhite(ReplaceBreaks(Join(d)))

\* detach(): part_005 lines 270-301
Vmix_detach(v) ==
  [v EXCEPT !.intervalId = FALSE, !.maestraClient = FALSE,
            !.transcriptBuffer = <<>>, !.transcriptCurrentlyDisplayed = <<>>,
            !.errorTimestamps = <<>>]

\* attach(maestraClient): part_005 lines 236-265; it throws before initialize()
Vmix_attach(v) ==
  IF ~v.isInitialized THEN v
  ELSE [(IF v.maestraClient THEN Vmix_detach(v) ELSE v)
          EXCEPT !.maestraClient = TRUE, !.intervalId = TRUE,
                 !.attachments = Count(@), !.lost = 0]

\* _handleTranscription with one segment: part_005 lines 309-314
Vmix_handleTranscription(v, text, end) ==
  IF end > v.currentTranscriptTimestamp
  THEN [v EXCEPT !.currentTranscriptTimestamp = end,
                 !.transcriptBuffer = @ \o text]
  ELSE v

RECURSIVE FlatWords(_, _)
\* the words of the segments of a list that start after the timestamp
FlatWords(list, stamp) ==
  IF list = <<>> THEN <<>>
  ELSE (IF Head(list).start > stamp THEN Head(list).words ELSE <<>>)
         \o FlatWords(Tail(list), stamp)

\* _handleTranscription with a list of segments: part_005 lines 315-323
Vmix_handleTranscriptionList(v, list) ==
  [v EXCEPT !.transcriptBuffer = @ \o FlatWords(list, v.currentTranscriptTimestamp)]

\* _sendAndFormatCaptions up to the request: part_005 lines 326-381
Vmix_sendAndFormatCaptions(v) ==
  LET w == Wrapped(v.transcriptCurrentlyDisplayed \o v.transcriptBuffer,
                   v.maxLineLength)
      d == TwoLines(w)
      t == Transcript(d)
      u == [v EXCEPT !.transcriptCurrentlyDisplayed = d, !.transcriptBuffer = <<>>,
                     !.scrolled = (Cardinality(Positions(w, LineBreak)) >= 2)]
  IN  IF t = <<>> /\ d # <<>>
      THEN [u EXCEPT !.skipped = TRUE]
      ELSE [u EXCEPT !.skipped = FALSE, !.sent = t, !.inFlight = @ + 1]

\* the failures a threshold of "10 or more" would count as too many
TooManyErrors_AtTen(recentErrors) == Len(recentErrors) >= MAX_ERRORS_IN_PERIOD

\* recentErrors.length > MAX_ERRORS_IN_PERIOD: part_005 line 393
TooManyErrors(recentErrors) == Len(recentErrors) > MAX_ERRORS_IN_PERIOD

\* the failures of the error period: part_005 lines 386-391
RecentErrors(stamps, now) ==
  SelectSeq(stamps, LAMBDA date : date > now - ERROR_PERIOD_SECONDS)

\* the catch of _sendAndFormatCaptions: part_005 lines 382-402
Vmix_sendFailed(v) ==
  LET stamps == Append(v.errorTimestamps, v.now)
      u == [v EXCEPT !.errorTimestamps = stamps, !.inFlight = @ - 1,
                     !.failures = Append(@, v.now)]
  IN  IF TooManyErrors(RecentErrors(stamps, v.now))
      THEN [Vmix_detach(u) EXCEPT !.emitted = <<"error">>, !.lost = @ + 1]
      ELSE u

\* the processor before a step: what the last step sent and emitted is gone
Quiet(v) ==
  [v EXCEPT !.emitted = <<>>, !.sent = <<>>, !.skipped = FALSE, !.scrolled = FALSE]

\* the processor after the step op
Did(v, op) == [v EXCEPT !.op = op]

\* initialize() has found vMix and the input: part_005 lines 164-230
VmixInitialize ==
  /\ ~vmix.isInitialized
  /\ vmix' = Did([Quiet(vmix) EXCEPT !.isInitialized = TRUE], "initialize")
  /\ UNCHANGED <<session, rs, mic>>

\* the application calls vmixProcessor.attach(client)
VmixAttach ==
  /\ vmix' = Did(Vmix_attach(Quiet(vmix)), "attach")
  /\ UNCHANGED <<session, rs, mic>>

\* the only attach() of a run
VmixAttachOnce == vmix.attachments = 0 /\ VmixAttach

\* the application calls vmixProcessor.detach()
VmixDetach ==
  /\ vmix' = Did(Vmix_detach(Quiet(vmix)), "detach")
  /\ UNCHANGED <<session, rs, mic>>

\* the client emits the event the processor listens to, with one segment
VmixSegment ==
  \E text \in CaptionTexts, end \in 1..MaxStamp :
    /\ vmix.maestraClient
    /\ Len(vmix.transcriptBuffer) + Len(vmix.transcriptCurrentlyDisplayed)
         + Len(text) <= MaxCaption
    /\ vmix' = Did(Vmix_handleTranscription(Quiet(vmix), text, end), "segment")
    /\ UNCHANGED <<session, rs, mic>>

\* the client emits the event the processor listens to, with a list
VmixSegmentList ==
  \E list \in SeqsUpTo(ListSegment, MaxSegs) \ {<<>>} :
    /\ vmix.maestraClient
    /\ Len(vmix.transcriptBuffer) + Len(vmix.transcriptCurrentlyDisplayed)
         + Len(list) <= MaxCaption
    /\ vmix' = Did(Vmix_handleTranscriptionList(Quiet(vmix), list), "segments")
    /\ UNCHANGED <<session, rs, mic>>

\* the update interval fires, with fewer than limit requests waiting
VmixTick(limit) ==
  /\ vmix.intervalId
  /\ vmix.inFlight < limit
  /\ vmix' = Did(Vmix_sendAndFormatCaptions(Quiet(vmix)), "tick")
  /\ UNCHANGED <<session, rs, mic>>

\* vMix answers a request with success
VmixSendOk ==
  /\ vmix.inFlight > 0
  /\ vmix' = Did([Quiet(vmix) EXCEPT !.inFlight = @ - 1], "ok")
  /\ UNCHANGED <<session, rs, mic>>

\* a request fails: vMix answers with an error, or the request times out
VmixSendFailed ==
  /\ vmix.inFlight > 0
  /\ vmix' = Did(Vmix_sendFailed(Quiet(vmix)), "failed")
  /\ UNCHANGED <<session, rs, mic>>

\* the instants at which things happen: the start, and the last second inside
\* and the first second outside the error period that begins at the start
Instants == {0, ERROR_PERIOD_SECONDS - 1, ERROR_PERIOD_SECONDS}

\* time passes
VmixElapse ==
  \E t \in Instants :
    /\ t > vmix.now
    /\ vmix' = Did([Quiet(vmix) EXCEPT !.now = t], "elapse")
    /\ UNCHANGED <<session, rs, mic>>

NextCaptions ==
  \/ VmixInitialize
  \/ VmixAttach
  \/ VmixDetach
  \/ VmixSegment
  \/ VmixSegmentList
  \/ VmixTick(1)
  \/ VmixSendOk

\* the objects after new VmixProcessor(options)
InitVmix ==
  /\ InitObjects({ValidKey}, {"undefined"})
  /\ rs = NoResampler
  /\ mic = NotConstructed
  /\ vmix = NewVmixProcessor

SpecCaptions == InitVmix /\ [][NextCaptions]_vars

NextVmixErrors ==
  \/ VmixInitialize
  \/ VmixAttachOnce
  \/ VmixTick(MaxInFlight)
  \/ VmixSendOk
  \/ VmixSendFailed
  \/ VmixElapse

SpecVmixErrors == InitVmix /\ [][NextVmixErrors]_vars

(***************************************************************************)
(* Vocabulary of the claims                                                *)
(***************************************************************************)
Sockets == 1..Len(socks)

Processors == 1..Len(procs)

\* the socket is the only connection attempt made on its WebSocketClient
SoleAttempt(s) == \A t \in Sockets : socks[t].owner = socks[s].owner => t = s

\* the events of the given name among a sequence of emitted events
Named(events, name) == SelectSeq(events, LAMBDA e : e.name = name)

\* the last step ran _handleMessage on a message addressed to this client
Handled == last.act = "message" /\ last.msg.uid # "other"

HardError(m) == m.status = "ERROR" \/ m.error

(***************************************************************************)
(* C1: for one connection attempt 'ready' is emitted at most once, and     *)
(* only by a message that is neither a WAIT status nor a hard error,       *)
(* whatever close(), the timeout and DISCONNECT handling did in between.   *)
(***************************************************************************)
C1_ReadyAtMostOnce ==
  /\ \A s \in Sockets : SoleAttempt(s) => socks[s].readyCount <= 1
  /\ Len(Named(emitted, "ready")) > 0 =>
       /\ Handled
       /\ last.msg.status # "WAIT"
       /\ ~HardError(last.msg)
       /\ socks[last.sock].opened
(***************************************************************************)
(* C2: when the connection timeout elapses before any message brought the  *)
(* connection to Ready, the attempt fails with a timeout error (exactly    *)
(* one 'error' event), the transport is closed and no connection timer of  *)
(* the client is pending afterwards.                                       *)
(***************************************************************************)
TimedOut == last.act = "timeout" /\ ~last.wasReady /\ SoleAttempt(last.sock)

C3_TimerCancelledOnExit ==
  \A s \in Sockets :
    (SoleAttempt(s) /\ (socks[s].readyCount > 0 \/ socks[s].readyState \in {"CLOSING", "CLOSED"}))
      => socks[s].timer # "pending"

(***************************************************************************)
(* C5: once a DISCONNECT message has been handled on a transport, no later *)
(* inbound message from that transport produces an event or changes the    *)
(* client; the DISCONNECT itself produced exactly one 'disconnect' event.  *)
(***************************************************************************)
C5_NothingAfterDisconnect ==
  (Handled /\ SoleAttempt(last.sock) /\ socks[last.sock].disconnected) =>
    IF last.msg.message = "DISCONNECT" /\ Len(Named(emitted, "disconnect")) > 0
    THEN Len(Named(emitted, "disconnect")) = 1
    ELSE emitted = <<>> /\ ~clients[socks[last.sock].owner].isServerReady
(***************************************************************************)
(* C4: a message whose message field is "DISCONNECT" is classified as a    *)
(* disconnect (one 'disconnect' event, connection closed) whatever its     *)
(* other fields are and whether or not Ready was reached before.           *)
(***************************************************************************)
C4_DisconnectPriority ==
  (Handled /\ last.msg.message = "DISCONNECT"
     /\ (mc.websocketClient = socks[last.sock].owner \/ socks[last.sock].disconnected)) =>
    /\ Len(Named(emitted, "disconnect")) = 1
    /\ socks[last.sock].readyState \in {"CLOSING", "CLOSED"}
    /\ ~clients[socks[last.sock].owner].isServerReady

(***************************************************************************)
(* C6: each 'segments' event carries exactly the segments of the message   *)
(* that caused it whose completed flag is false, in their order, and is    *)
(* forwarded unchanged as 'interim-transcription'; no other step emits     *)
(* one.  As claimed: every message with exactly one such segment yields    *)
(* exactly one interim event.  As amended: it does when it is handled as a *)
(* transcription message (received while Ready, no WAIT or ERROR status,   *)
(* no error field, not consumed as the language detection, not a           *)
(* DISCONNECT).                                                            *)
(***************************************************************************)
\* the positions of the segments of a list that are not completed
Open(segs) == {j \in 1..Len(segs) : ~segs[j].completed}

\* out lists exactly the non-completed segments of segs, in order
ExactlyTheOpen(out, segs) ==
  /\ Len(out) = Cardinality(Open(segs))
  /\ \E f \in [1..Len(out) -> Open(segs)] :
       /\ \A i, j \in 1..Len(out) : i < j => f[i] < f[j]
       /\ \A i \in 1..Len(out) : out[i] = segs[f[i]]

\* the last step handled a message on the transcription path of _handleMessage
Transcribed ==
  /\ Handled
  /\ last.wasReady
  /\ last.msg.status = "none" /\ ~last.msg.error
  /\ ~(last.lang = "null" /\ last.msg.language)
  /\ last.msg.message # "DISCONNECT"

InterimCarriesCurrent ==
  LET ev  == Named(emitted, "segments")
      fwd == Named(mcEmitted, "interim-transcription")
  IN  /\ Len(ev) > 0 => Handled /\ last.msg.hasSegments
      /\ Len(ev) <= 1
      /\ Len(fwd) = Len(ev)
      /\ \A i \in 1..Len(ev) :
           /\ Len(ev[i].segs) > 0
           /\ ExactlyTheOpen(ev[i].segs, last.msg.segments)
           /\ fwd[i].segs = ev[i].segs

OneOpenSegment ==
  Handled /\ last.msg.hasSegments /\ Cardinality(Open(last.msg.segments)) = 1

C6_Original ==
  /\ InterimCarriesCurrent
  /\ OneOpenSegment => Len(Named(emitted, "segments")) = 1

C6_InterimSegments ==
  /\ InterimCarriesCurrent
  /\ (OneOpenSegment /\ Transcribed) =>
       /\ Len(Named(emitted, "segments")) = 1
       /\ Len(Named(emitted, "segments")[1].segs) = 1

C6_Witness ==
  /\ Transcribed
  /\ last.msg.segments = <<[text |-> "hi", completed |-> TRUE],
                           [text |-> "yo", completed |-> FALSE]>>
  /\ Named(emitted, "segments")[1].segs = <<[text |-> "yo", completed |-> FALSE]>>
(***************************************************************************)
(* C7: when MaestraClient.stop() has returned, from any state, the capture *)
(* source is stopped (its process or device is not running), no connection *)
(* timer is pending, the transport is closed and the session state is      *)
(* discarded.                                                              *)
(***************************************************************************)
C7_StopReleasesEverything ==
  /\ last.act = "stop" =>
       /\ mc = NewMaestraClient
       /\ \A s \in Sockets :
            SoleAttempt(s) => /\ socks[s].timer = "idle"
                              /\ socks[s].readyState \in {"CLOSING", "CLOSED"}
  /\ \A p \in Processors : procs[p].stopped => procs[p].source # "running"

(***************************************************************************)
(* C8: after the first stop() has returned, the sink is never invoked      *)
(* again for the stopped session: no block of a stopped source is written  *)
(* to a socket.                                                            *)
(***************************************************************************)
C8_NoSinkAfterStop ==
  (last.act = "audio" /\ procs[last.proc].stopped) => audioOut = <<>>

(***************************************************************************)
(* C9: for every capture source, once stop() has returned the audio        *)
(* callback is never invoked again.                                        *)
(***************************************************************************)
C9_NoAudioAfterStop ==
  last.act = "audio" => ~procs[last.proc].stopped

(***************************************************************************)
(* C10: at most one capture source is running and feeding the client at    *)
(* any time.                                                               *)
(***************************************************************************)
C10_AtMostOneActive ==
  Cardinality({p \in Processors : procs[p].source = "running"}) <= 1

(***************************************************************************)
(* C15: a hard error message is classified as authentication-class exactly *)
(* when its status_code is 401 or 403 or its error text contains, ignoring *)
(* case, one of the authentication keywords; every other hard error is     *)
(* generic, and the errors of the two classes differ.                      *)
(***************************************************************************)
\* the error text of a message: message, else error, when it is a string
ErrorTextOf(m) ==
  CASE m.message = "text"                   -> m.words
    [] m.message = "DISCONNECT"             -> <<"DISCONNECT">>
    [] m.error /\ m.errorType = "string"    -> m.errorWords
    [] OTHER                                -> <<>>

AuthenticationClass(m) ==
  \/ m.status_code \in {401, 403}
  \/ \E keyword \in authKeywords : Includes(ToLowerCase(ErrorTextOf(m)), keyword)

HardErrorHandled == Handled /\ last.msg.status # "WAIT" /\ HardError(last.msg)

C15_AuthClassification ==
  HardErrorHandled =>
    LET ev == Named(emitted, "error")
    IN  /\ Len(ev) = 1
        /\ ev[1].arg \in {"auth", "generic"}
        /\ ev[1].arg = "auth" <=> AuthenticationClass(last.msg)
        /\ ev[1].arg = "generic" => ev[1].segs # AuthErrorText

\* the same for the messages whose error text is a string
C15_StringTexts ==
  (HardErrorHandled /\ ErrorMessage(last.msg).isString) => C15_AuthClassification

(***************************************************************************)
(* C11: when the active capture source reports an error while streaming,   *)
(* the error reaches the caller and the session is stopped: the client is  *)
(* no longer transcribing and the source and its resources are released.   *)
(***************************************************************************)
\* the last step ran a handler of the processor the client is streaming from
OnActiveSource(act) == last.act = act /\ mc.streamProcessor = last.proc

Released(p) ==
  /\ ~procs[p].isProcessing
  /\ ~procs[p].handle
  /\ ~procs[p].resampler
  /\ procs[p].source # "running"

C11_SourceErrorStopsSession ==
  OnActiveSource("sourceerror") =>
    /\ Len(Named(mcEmitted, "error")) >= 1
    /\ ~mc.isTranscribing
    /\ Released(last.proc)

(***************************************************************************)
(* C12: when the start of the capture source fails, the error reaches the  *)
(* caller and the session has not started: the client is not left in the   *)
(* transcribing state.                                                     *)
(***************************************************************************)
C12_FailedStartNeverStarts ==
  OnActiveSource("startfailed") =>
    /\ Len(Named(mcEmitted, "error")) >= 1
    /\ ~mc.isTranscribing

(***************************************************************************)
(* C13: a DISCONNECT message handled on the connection of the client while *)
(* it is transcribing tears the session down: afterwards the client is not *)
(* transcribing and its capture source is stopped.                         *)
(***************************************************************************)
C13_DisconnectEndsSession ==
  (Handled /\ Len(Named(emitted, "disconnect")) > 0
     /\ mc.websocketClient = socks[last.sock].owner) =>
    /\ ~mc.isTranscribing
    /\ mc.streamProcessor = 0
    /\ \A p \in Processors : ~procs[p].stopped => Released(p)

(***************************************************************************)
(* C14: after a hard error message, received while Connecting or while     *)
(* Ready, the connection attempt is Closed: the transport is closed and    *)
(* isServerReady is false.                                                 *)
(***************************************************************************)
C14_HardErrorCloses ==
  (HardErrorHandled /\ SoleAttempt(last.sock)) =>
    /\ socks[last.sock].readyState \in {"CLOSING", "CLOSED"}
    /\ ~clients[socks[last.sock].owner].isServerReady

(***************************************************************************)
(* C16: a message with status WAIT is forwarded as an event of its own,    *)
(* not as the 'error' event that hard errors use.                          *)
(***************************************************************************)
C16_WaitIsNotAnError ==
  (Handled /\ last.msg.status = "WAIT") =>
    /\ Len(mcEmitted) = 1
    /\ Named(emitted, "error") = <<>>
    /\ Named(mcEmitted, "error") = <<>>

(***************************************************************************)
(* C17: for a client configured without a source language (not passed, or  *)
(* 'auto'), a message received after Ready that carries a language field   *)
(* makes the WebSocketClient emit 'languageDetected', which the            *)
(* MaestraClient forwards as 'language-detected'.                          *)
(***************************************************************************)
C17_LanguageDetected ==
  (Handled /\ last.wasReady /\ last.msg.language
     /\ last.msg.status = "none" /\ ~last.msg.error
     /\ MC_options(options).sourceLanguage \in {"null", "auto"}) =>
    /\ Len(Named(emitted, "languageDetected")) = 1
    /\ Len(Named(mcEmitted, "language-detected")) = 1

FifoStep ==
  /\ Len(audioOut') <= 1
  /\ audioOut' # <<>> => last'.act = "audio" /\ last'.proc \in Processors
  /\ \A p \in Processors :
       LET old == procs[p].buf
           new == procs'[p].buf
       IN  \/ /\ new = old
              /\ (audioOut' # <<>> /\ last'.proc = p) => old = <<>>
           \/ /\ \E b \in Blocks : new = Append(old, b)
              /\ audioOut' = <<>>
           \/ /\ old # <<>>
              /\ new = Tail(old)
              /\ \A i \in 1..Len(audioOut') : audioOut'[i].frame.block = Head(old)

C19_Fifo == [][FifoStep]_vars

\* a frame was written while a different, younger block is still buffered
C19_Witness ==
  /\ last.act = "audio"
  /\ Len(audioOut) = 1
  /\ procs[last.proc].buf # <<>>
  /\ procs[last.proc].buf[1] # audioOut[1].frame.block

(***************************************************************************)
(* C20: however the signal was divided into consecutive blocks, the        *)
(* samples sent after the whole signal was fed are the samples that        *)
(* feeding the signal as one block yields, on the AudioWorklet path and on *)
(* the ScriptProcessor path.                                               *)
(***************************************************************************)
\* the samples a freshly set up node sends for the signal fed as one block
OneBlockOutput ==
  IF rs.path = "worklet"
  THEN Resampler_process([lastSample |-> 0, nextSample |-> 0, writeIndex |-> 0],
                         rs.signal, 0, rs.from, rs.to).out
  ELSE resample(rs.signal, rs.from, rs.to).out

\* the blocks fed so far were consecutive: no quantum without input between
Consecutive == rs.currentFrame = rs.fed

WholeSignalFed ==
  rs.path # "none" /\ ValidRates /\ Consecutive /\ rs.fed = Len(rs.signal)

C20_BlockSplitEquivalence == WholeSignalFed => rs.out = OneBlockOutput

\* the same on the AudioWorklet path alone
C20_WorkletPath == (WholeSignalFed /\ rs.path = "worklet") => rs.out = OneBlockOutput

\* ---------------------------------------------------------------------------
\* C21  After the first N samples of the signal have been processed at rates
\* R1 -> R2, the output holds one sample for each tick w >= 0 with
\* w / R2 < N / R1, however the input was divided into blocks: its length is
\* the number of those ticks, ceil(N * R2 / R1).

Ticks(n, from, to) == CeilDiv(n * to, from)

Processed == rs.path # "none" /\ ValidRates /\ Consecutive /\ rs.outcome # "none"

C21_OneSamplePerTick == Processed => Len(rs.out) = Ticks(rs.fed, rs.from, rs.to)

\* the same on the AudioWorklet path alone
C21_WorkletPath ==
  (Processed /\ rs.path = "worklet") => Len(rs.out) = Ticks(rs.fed, rs.from, rs.to)

\* ---------------------------------------------------------------------------
\* C22  With equal input and output rates the output is the input: the same
\* number of samples, the same values in the same order, none delayed.  (The
\* model stores an output sample multiplied by the output rate.)

InputSoFar == [i \in 1..rs.fed |-> rs.signal[i] * rs.to]

C22_EqualRatesPassThrough == (Processed /\ rs.from = rs.to) => rs.out = InputSoFar

\* the same on the ScriptProcessor path alone
C22_ScriptPath ==
  (Processed /\ rs.from = rs.to /\ rs.path = "script") => rs.out = InputSoFar

\* ---------------------------------------------------------------------------
\* C23  A call with a block of no samples, or with no block at all, returns
\* normally, adds no output sample and leaves writeIndex and the interpolation
\* state (lastSample, nextSample) as they were.

EmptyBlockStep ==
  (rs'.path # "none" /\ rs'.blockLen <= 0)
    => /\ rs'.outcome = "ok"
       /\ rs'.out = rs.out
       /\ rs'.writeIndex = rs.writeIndex
       /\ rs'.lastSample = rs.lastSample
       /\ rs'.nextSample = rs.nextSample

C23_EmptyBlock == [][EmptyBlockStep]_vars

\* an empty block arrived between two parts of the signal, after output had
\* been produced
C23_Witness ==
  /\ rs.path = "worklet" /\ ValidRates
  /\ rs.blockLen = 0 /\ rs.outcome = "ok"
  /\ rs.fed > 0 /\ rs.fed < Len(rs.signal)
  /\ rs.writeIndex > 0 /\ rs.out # <<>>

\* ---------------------------------------------------------------------------
\* C24  A call with an input or output rate that is zero or negative fails
\* with an InvalidConfiguration error: it produces no output, throws no other
\* error and does not run forever.

InvalidRates == rs.path # "none" /\ (rs.from <= 0 \/ rs.to <= 0)

C24_InvalidConfiguration ==
  (InvalidRates /\ rs.outcome # "none")
    => (rs.outcome = "InvalidConfiguration" /\ rs.out = <<>>)

\* ---------------------------------------------------------------------------
\* C25  The first thing written to a socket is the configuration record, so
\* it precedes every audio frame.  The record carries uid, authorization and
\* use_vad; it carries sourceLanguage exactly when the caller configured a
\* source language, targetLanguage exactly when the caller configured a target
\* language, and its translationEnabled is true exactly when a target
\* language is set.

Given(v) == v \notin {"undefined", "null"}

ConfiguredSource ==
  IF Given(options.sourceLanguage) THEN options.sourceLanguage
  ELSE IF Given(options.language) THEN options.language
  ELSE "absent"

ConfiguredTarget ==
  IF Given(options.targetLanguage) THEN options.targetLanguage ELSE "absent"

C26_UseVad ==
  \A s \in Sockets :
    socks[s].opened =>
      socks[s].config.use_vad =
        (IF options.useVad = "undefined" THEN "true" ELSE options.useVad)

\* ---------------------------------------------------------------------------
\* C27  With an API key that is missing, not a string, empty or made of
\* blanks only, connect() fails before any connection is attempted: an error
\* is surfaced, no socket is created, no configuration record is sent and no
\* timer is armed.

InvalidKey(k) == k.type # "string" \/ \A i \in 1..Len(k.chars) : k.chars[i] = " "

C27_InvalidKeyFailsEarly ==
  InvalidKey(options.apiKey) =>
    /\ socks = <<>>
    /\ \A c \in 1..Len(clients) : clients[c].socket = 0 /\ clients[c].connectionTimer = 0
    /\ last.act = "connect" =>
         (Named(emitted, "error") # <<>> /\ Named(mcEmitted, "error") # <<>>)

\* connect() was called with a key of blanks
C27_Witness ==
  /\ last.act = "connect"
  /\ options.apiKey = [type |-> "string", chars |-> <<" ", " ">>]
  /\ Named(mcEmitted, "error") # <<>>
  /\ socks = <<>>

\* ---------------------------------------------------------------------------
\* C28  At any time a client owns at most one open socket and at most one
\* pending connection-timeout timer, also when connect() is called again
\* before or after an earlier attempt has completed.

OpenSockets(c) == {s \in Sockets : socks[s].owner = c /\ socks[s].readyState = "OPEN"}

PendingTimers(c) == {s \in Sockets : socks[s].owner = c /\ socks[s].timer = "pending"}

C28_OneSocketOneTimer ==
  \A c \in 1..Len(clients) :
    Cardinality(OpenSockets(c)) <= 1 /\ Cardinality(PendingTimers(c)) <= 1

\* ---------------------------------------------------------------------------
\* C29  Every inbound message addressed to this client that signals a hard
\* error (status ERROR or an error field, no WAIT status) produces exactly
\* one 'error' event, on the WebSocketClient and on the MaestraClient, before
\* Ready as well as after it.

C29_OneErrorPerHardError ==
  HardErrorHandled =>
    /\ Len(Named(emitted, "error")) = 1
    /\ Len(Named(mcEmitted, "error")) = 1

\* a hard error whose error field is an object, received after Ready
C29_Witness ==
  /\ HardErrorHandled /\ last.wasReady
  /\ last.msg.errorType = "object"
  /\ Len(Named(mcEmitted, "error")) = 1

\* ---------------------------------------------------------------------------
\* C30  A malformed inbound message (a text that is not JSON, or a segments
\* field that is not a list) produces an 'error' for that message and nothing
\* else: the ready flag, the socket and the timer are as before it, so later
\* messages are processed as usual.

Malformed(m) == m.data = "text" \/ (m.hasSegments /\ m.segmentsType # "list")

MalformedStep ==
  (last'.act = "message" /\ Malformed(last'.msg)) =>
    LET s == last'.sock
        c == socks[s].owner
    IN  /\ Len(emitted') = 1 /\ emitted'[1].name = "error"
        /\ clients'[c].isServerReady = clients[c].isServerReady
        /\ clients'[c].connectionTimer = clients[c].connectionTimer
        /\ socks'[s].readyState = socks[s].readyState
        /\ socks'[s].timer = socks[s].timer

C30_MalformedIsolated == [][MalformedStep]_vars

\* the same for the malformed messages received while Ready, and for the
\* texts that are not JSON at any time
MalformedStepReadyOrText ==
  (last'.act = "message"
   /\ (last'.msg.data = "text" \/ clients[socks[last'.sock].owner].isServerReady))
    => MalformedStep

C30_WhileReadyOrNotJson == [][MalformedStepReadyOrText]_vars

\* ---------------------------------------------------------------------------
\* C31  An inbound message that carries another client's uid is discarded:
\* it emits no event and changes nothing (the connection does not become
\* Ready, the timer is not cancelled).  A message with this client's uid or
\* without a uid is processed: it produces an event.

UidStep ==
  (last'.act = "message" /\ last'.msg.data = "json") =>
    IF last'.msg.uid = "other"
    THEN /\ emitted' = <<>> /\ mcEmitted' = <<>>
         /\ clients' = clients /\ socks' = socks /\ mc' = mc
    ELSE emitted' # <<>>

C31_OtherUidDiscarded == [][UidStep]_vars

\* a message without status for another client arrived while the connection
\* was waiting for the server, its timer pending
C31_Witness ==
  /\ last.act = "message" /\ last.msg.uid = "other" /\ last.msg.status = "none"
  /\ ~last.wasReady
  /\ socks[last.sock].timer = "pending"
  /\ ~clients[socks[last.sock].owner].isServerReady

\* ---------------------------------------------------------------------------
\* C35  getTranscriptionData() returns the current data: once a finalized
\* segment has been received (and forwarded as 'finalized-transcription'),
\* finalizedTranscription holds it as its last entry.

C35_FinalizedKept ==
  Named(mcEmitted, "finalized-transcription") # <<>> =>
    LET data == MC_getTranscriptionData(mc).finalizedTranscription
    IN  data # <<>> /\ data[Len(data)] = "segment"

\* ---------------------------------------------------------------------------
\* C36  A transcribe() that is refused (a transcription is active, or there
\* is no connection or the server is not ready) emits exactly one 'error' and
\* does nothing else: no processor is started or wired, streamProcessor and
\* isTranscribing keep their values.

Refused ==
  \/ mc.isTranscribing
  \/ mc.websocketClient = 0
  \/ ~clients[mc.websocketClient].isServerReady

RefusedStep ==
  (last'.act = "transcribe" /\ Refused) =>
    /\ Len(mcEmitted') = 1 /\ mcEmitted'[1].name = "error"
    /\ procs' = procs /\ mc' = mc /\ clients' = clients /\ socks' = socks
    /\ audioOut' = <<>>

C36_RefusedTranscribe == [][RefusedStep]_vars

\* transcribe() was refused while a source was running
C36_Witness ==
  /\ last.act = "transcribe"
  /\ mcEmitted = <<[name |-> "error", arg |-> "already", segs |-> <<>>]>>
  /\ mc.isTranscribing /\ mc.streamProcessor # 0
  /\ procs[mc.streamProcessor].source = "running"

\* ---------------------------------------------------------------------------
\* C37  After stop() has returned, a message that the closed connection's
\* socket still delivers makes the MaestraClient emit no 'ready',
\* transcription, translation, language-detected or disconnect event.

SessionEvents ==
  {"ready", "interim-transcription", "interim-translation", "finalized-transcription",
   "finalized-translation", "language-detected", "disconnect"}

\* the socket belongs to a WebSocketClient that stop() has dropped
Dropped(s) == socks[s].owner # mc.websocketClient

C37_SilentAfterStop ==
  (last.act = "message" /\ Dropped(last.sock)) =>
    \A i \in 1..Len(mcEmitted) : mcEmitted[i].name \notin SessionEvents

\* ---------------------------------------------------------------------------
\* C39  A failed connection attempt (an API key that is missing or invalid,
\* or the timeout waiting for the server) reaches the 'error' listeners of the
\* MaestraClient exactly once.

KeyRejected == last.act = "connect" /\ ~WS_validateApiKey(options.apiKey)

C39_OneErrorPerFailure ==
  (KeyRejected \/ TimedOut) => Len(Named(mcEmitted, "error")) = 1

\* the same for the timeout alone
C39_Timeout == TimedOut => Len(Named(mcEmitted, "error")) = 1

\* ---------------------------------------------------------------------------
\* C38: MicrophoneProcessor.start() called again while an earlier start() is
\* waiting for its resampler leaves at most one recording and one resampler,
\* and a stop() with no start() waiting releases everything that was created.
C38_OneRecordingOneResampler ==
  /\ Cardinality(mic.recordings) <= 1
  /\ Cardinality(mic.resamplers) <= 1
  /\ (mic.op = "stop" /\ mic.pending = 0) =>
       (mic.recordings = {} /\ mic.resamplers = {})

RECURSIVE Lines(_)
\* the lines of a caption text
Lines(s) ==
  IF Positions(s, "\n") = {} THEN <<s>>
  ELSE <<SubSeq(s, 1, IndexOf(s, "\n") - 1)>>
         \o Lines(SubSeq(s, IndexOf(s, "\n") + 1, Len(s)))

\* no word on display is longer than maxLineLength
ShortWords ==
  \A i \in 1..Len(vmix.transcriptCurrentlyDisplayed) :
    Len(vmix.transcriptCurrentlyDisplayed[i]) <= vmix.maxLineLength

\* C34: every line of a caption sent to vMix is at most maxLineLength
\* characters long, when no word is longer than maxLineLength.
C34_LinesFit ==
  (vmix.op = "tick" /\ ~vmix.skipped /\ ShortWords) =>
    \A i \in 1..Len(Lines(vmix.sent)) : Len(Lines(vmix.sent)[i]) <= vmix.maxLineLength

\* ---------------------------------------------------------------------------
\* the failures of the last 30 seconds, the one of this step included
FailuresInPeriod ==
  Len(SelectSeq(vmix'.failures, LAMBDA date : date > vmix'.now - 30))

FailureStep ==
  (vmix'.op = "failed" /\ vmix.intervalId) =>
    IF FailuresInPeriod > 10
    THEN vmix'.emitted = <<"error">> /\ ~vmix'.intervalId /\ ~vmix'.maestraClient
    ELSE vmix'.emitted = <<>> /\ vmix'.intervalId /\ vmix'.maestraClient

\* C32: a failed caption request makes the attached VmixProcessor emit 'error'
\* and detach when more than 10 requests have failed within the last 30
\* seconds, and leaves it attached and silent when 10 or fewer have.
C32_DisabledAfterTenFailures == [][FailureStep]_vars

\* C32: the processor has disabled itself on the eleventh failure of the last
\* 30 seconds, after an earlier failure that is older than that
C32_Witness ==
  /\ vmix.op = "failed"
  /\ vmix.emitted = <<"error">>
  /\ ~vmix.intervalId
  /\ Len(vmix.failures) = 12
  /\ vmix.failures[1] = 0
  /\ vmix.now = 30

\* ---------------------------------------------------------------------------
\* C40: in one attachment 'Connection to vMix lost' is emitted at most once.
C40_LostOnce == vmix.lost <= 1

====
